---- MODULE Spec2Model ----
(***************************************************************************)
(* CFFmpeg: the C shim of hdrplay over FFmpeg's preprocessor macros.       *)
(*                                                                         *)
(*   int get_averror_eof(void)        { return AVERROR_EOF; }              *)
(*   int averror_from_errno(int err)  { return AVERROR(err); }             *)
(*   int get_averror_eagain(void)     { return AVERROR(EAGAIN); }          *)
(*   const int64_t AV_NOPTS_VALUE_INT = AV_NOPTS_VALUE;                    *)
(*   const AVPacketSideData* get_codec_side_data(codecpar, type);          *)
(*                                                                         *)
(* The state is what a host program with several threads can observe: the  *)
(* object AV_NOPTS_VALUE_INT, the caller's codec parameters, and what each  *)
(* thread's latest call returned.  Every call is one action.               *)
(***************************************************************************)
EXTENDS Integers, Sequences, FiniteSets, TLC

VARIABLES
    platform,            \* the build target, which fixes <errno.h>
    AV_NOPTS_VALUE_INT,  \* the const int64_t object of CFFmpegHelpers.c
    coded_side_data,     \* codecpar->coded_side_data[0 .. nb_coded_side_data-1]
    ret                  \* per thread: the latest call, its argument, its result

vars == <<platform, AV_NOPTS_VALUE_INT, coded_side_data, ret>>

(***************************************************************************)
(* Bounds of the model.                                                    *)
(***************************************************************************)
\* the longest side-data array a caller hands in
MaxSideData == 3
\* side-data type tags are 0 .. MaxTypeTag
MaxTypeTag == 2

Threads == {"t1", "t2"}
Platforms == {"darwin", "linux"}

(***************************************************************************)
(* C's int: 32 bits, two's complement.                                     *)
(***************************************************************************)
INT_MAX == 2147483647
INT_MIN == -INT_MAX - 1

\* a + b = 0 over the mathematical integers, computed on halves so that the
\* sum of two 32-bit values is never formed
SumIsZero(a, b) ==
    LET lo == (a % 2) + (b % 2)
        hi == (a \div 2) + (b \div 2)
    IN  \/ lo = 0 /\ hi = 0
        \/ lo = 2 /\ hi = -1

\* unary minus on an int is undefined when its operand is INT_MIN: the
\* outcomes a build produces there (the wrapped value, or any other int)
NegOverflow == {INT_MIN, 0, INT_MAX}

(***************************************************************************)
(* <errno.h> of the build target.                                          *)
(***************************************************************************)
EAGAIN_darwin == 35
EAGAIN_linux == 11
EDOM == 33
ELAST_darwin == 106
ELAST_linux == 133

EAGAIN == IF platform = "darwin" THEN EAGAIN_darwin ELSE EAGAIN_linux
\* the largest platform error number
ELAST == IF platform = "darwin" THEN ELAST_darwin ELSE ELAST_linux
ErrnoRange == 1..ELAST

(***************************************************************************)
(* libavutil/error.h, libavutil/macros.h, libavutil/avutil.h.              *)
(***************************************************************************)
\* MKTAG(a,b,c,d): (a) | ((b) << 8) | ((c) << 16) | ((unsigned)(d) << 24)
MKTAG(a, b, c, d) == a + b * 256 + c * 65536 + d * 16777216

\* FFERRTAG(a,b,c,d): (-(int)MKTAG(a, b, c, d))
\* the tag without its sign
FFERRTAG_unsigned(a, b, c, d) == MKTAG(a, b, c, d)
FFERRTAG(a, b, c, d) == -MKTAG(a, b, c, d)

\* AVERROR_EOF: FFERRTAG('E','O','F',' ')
\* the tag with its bytes in the other order
AVERROR_EOF_bigendian == FFERRTAG(32, 70, 79, 69)
\* AVERROR(EPIPE), EPIPE being EDOM - 1 on both targets
AVERROR_EOF_EPIPE == -(EDOM - 1)
AVERROR_EOF == FFERRTAG(69, 79, 70, 32)

\* AVERROR(e): (-(e)) when EDOM > 0, (e) otherwise; the set of results a
\* build can produce
\* the branch for a target whose error numbers are negative
AVERROR_identity(e) == {e}
\* negates only once some call has gone before
AVERROR_stateful(e) ==
    IF e = INT_MIN THEN NegOverflow
    ELSE {IF \E t \in Threads : ret[t].op = "averror_from_errno" THEN -e ELSE e}
AVERROR(e) ==
    IF EDOM > 0
    THEN IF e = INT_MIN THEN NegOverflow ELSE {-e}
    ELSE {e}

\* a 64-bit pattern is four 16-bit limbs, most significant first; (int64_t)
\* of it is [hi, lo], standing for hi * 2^48 + lo read as 48 bits, with hi
\* the top limb in two's complement
\* the pattern without the cast
Int64FromU64_unsigned(l) == [hi |-> l[1], lo |-> <<l[2], l[3], l[4]>>]
Int64FromU64(l) ==
    [hi |-> IF l[1] >= 32768 THEN l[1] - 65536 ELSE l[1],
     lo |-> <<l[2], l[3], l[4]>>]

\* AV_NOPTS_VALUE: ((int64_t)UINT64_C(0x8000000000000000))
AV_NOPTS_VALUE == Int64FromU64(<<32768, 0, 0, 0>>)

(***************************************************************************)
(* get_codec_side_data: the scan of codecpar->coded_side_data.             *)
(***************************************************************************)
\* a reference into the array is the entry's index; NULL is none of them
NULL == 0

RECURSIVE side_data_scan(_, _, _)
side_data_scan(sd, type, i) ==
    IF i > Len(sd) THEN NULL
    ELSE IF sd[i].type = type THEN i
    ELSE side_data_scan(sd, type, i + 1)

\* falls back to the first entry; starts the scan one entry late
side_data_lookup_nomatch_first(sd, type) ==
    IF Len(sd) = 0 THEN NULL
    ELSE IF side_data_scan(sd, type, 1) = NULL THEN 1
    ELSE side_data_scan(sd, type, 1)
side_data_lookup_skip_first(sd, type) == side_data_scan(sd, type, 2)
side_data_lookup(sd, type) == side_data_scan(sd, type, 1)

(***************************************************************************)
(* Inputs.                                                                 *)
(***************************************************************************)
TypeTags == 0..MaxTypeTag

\* the arrays a caller can hand in: every ordering of up to MaxSideData
\* entries, each with its type tag
SideDataArrays ==
    UNION {[1..n -> [type : TypeTags]] : n \in 0..MaxSideData}

\* the arguments averror_from_errno is called with: platform error numbers,
\* values the shim itself returns, and the ends of int
ErrnoInputs ==
    {INT_MIN, -INT_MAX, -MKTAG(69, 79, 70, 32), -EAGAIN, -1, 0,
     1, EAGAIN, EDOM, ELAST, MKTAG(69, 79, 70, 32), INT_MAX}

NoCall == [op |-> "none", arg |-> 0, val |-> 0]

(***************************************************************************)
(* The state after the program is loaded.                                  *)
(***************************************************************************)
Init ==
    /\ platform \in Platforms
    /\ AV_NOPTS_VALUE_INT = AV_NOPTS_VALUE
    /\ coded_side_data \in SideDataArrays
    /\ ret = [t \in Threads |-> NoCall]

(***************************************************************************)
(* The operations, each called by a thread t.                              *)
(***************************************************************************)
get_averror_eof(t) ==
    /\ ret' = [ret EXCEPT ![t] =
                  [op |-> "get_averror_eof", arg |-> 0, val |-> AVERROR_EOF]]
    /\ UNCHANGED <<platform, AV_NOPTS_VALUE_INT, coded_side_data>>

\* the result kept in a static object that the threads share
averror_from_errno_static(t) ==
    \E err \in ErrnoInputs :
    \E v \in AVERROR(err) \cup
              {ret[u].val : u \in {x \in Threads : ret[x].op = "averror_from_errno"}} :
        /\ ret' = [ret EXCEPT ![t] =
                      [op |-> "averror_from_errno", arg |-> err, val |-> v]]
        /\ UNCHANGED <<platform, AV_NOPTS_VALUE_INT, coded_side_data>>

averror_from_errno(t) ==
    \E err \in ErrnoInputs :
    \E v \in AVERROR(err) :
        /\ ret' = [ret EXCEPT ![t] =
                      [op |-> "averror_from_errno", arg |-> err, val |-> v]]
        /\ UNCHANGED <<platform, AV_NOPTS_VALUE_INT, coded_side_data>>

\* EAGAIN returned as it is
get_averror_eagain_positive(t) ==
    /\ ret' = [ret EXCEPT ![t] =
                  [op |-> "get_averror_eagain", arg |-> 0, val |-> EAGAIN]]
    /\ UNCHANGED <<platform, AV_NOPTS_VALUE_INT, coded_side_data>>

get_averror_eagain(t) ==
    \E v \in AVERROR(EAGAIN) :
        /\ ret' = [ret EXCEPT ![t] =
                      [op |-> "get_averror_eagain", arg |-> 0, val |-> v]]
        /\ UNCHANGED <<platform, AV_NOPTS_VALUE_INT, coded_side_data>>

read_AV_NOPTS_VALUE_INT(t) ==
    /\ ret' = [ret EXCEPT ![t] =
                  [op |-> "AV_NOPTS_VALUE_INT", arg |-> 0,
                   val |-> AV_NOPTS_VALUE_INT]]
    /\ UNCHANGED <<platform, AV_NOPTS_VALUE_INT, coded_side_data>>

get_codec_side_data(t) ==
    \E type \in TypeTags :
        /\ ret' = [ret EXCEPT ![t] =
                      [op |-> "get_codec_side_data", arg |-> type,
                       val |-> side_data_lookup(coded_side_data, type)]]
        /\ UNCHANGED <<platform, AV_NOPTS_VALUE_INT, coded_side_data>>

Next ==
    \E t \in Threads :
        \/ get_averror_eof(t)
        \/ averror_from_errno(t)
        \/ get_averror_eagain(t)
        \/ read_AV_NOPTS_VALUE_INT(t)
        \/ get_codec_side_data(t)

Spec == Init /\ [][Next]_vars

(***************************************************************************)
(* Properties.                                                             *)
(***************************************************************************)
Called(t, op) == ret[t].op = op

\* the entries of the caller's array whose type tag is type
Matching(type) ==
    {i \in 1..Len(coded_side_data) : coded_side_data[i].type = type}

INT64_MIN == [hi |-> -32768, lo |-> <<0, 0, 0>>]

\* C1: get_codec_side_data returns null when params has no side-data entry,
\* and, when exactly one entry of params' array carries the type tag asked
\* for, wherever it stands in the array, a reference to that entry; any
\* reference it returns is to an entry of params' own array with that tag.
C1_SideDataLookup ==
    \A t \in Threads :
        Called(t, "get_codec_side_data") =>
            /\ Len(coded_side_data) = 0 => ret[t].val = NULL
            /\ Cardinality(Matching(ret[t].arg)) = 1 =>
                   ret[t].val \in Matching(ret[t].arg)
            /\ ret[t].val # NULL => ret[t].val \in Matching(ret[t].arg)

C1_Witness ==
    \E t \in Threads :
        /\ Called(t, "get_codec_side_data")
        /\ Len(coded_side_data) >= 2
        /\ Matching(ret[t].arg) = {1}
        /\ ret[t].val = 1

\* C2: every call of get_averror_eof returns AVERROR_EOF, which is
\* -0x20464F45 = -541478725, whatever was called before and by whom.
C2_EofConstant ==
    \A t \in Threads :
        Called(t, "get_averror_eof") => ret[t].val = -541478725

C2_Witness ==
    \E t, u \in Threads :
        /\ t # u
        /\ Called(t, "get_averror_eof")
        /\ Called(u, "get_averror_eof")
        /\ ret[t].val = ret[u].val

\* C3: every call of get_averror_eagain returns the negated EAGAIN of the
\* build target (-35 on darwin, -11 on linux), whatever was called before.
C3_EagainConstant ==
    \A t \in Threads :
        Called(t, "get_averror_eagain") =>
            ret[t].val = (IF platform = "darwin" THEN -35 ELSE -11)

C3_Witness ==
    \E t, u \in Threads :
        /\ t # u
        /\ Called(t, "get_averror_eagain")
        /\ Called(u, "get_averror_eagain")
        /\ ret[t].val = ret[u].val

\* C4: averror_from_errno is a function of its argument alone: a call with
\* an argument e other than INT_MIN (every platform error number is one)
\* returns what any earlier call with e returned, whatever calls came in
\* between, and no step changes the codec parameters or the sentinel.
C4_ErrnoPure ==
    [][/\ \A t, u \in Threads :
              ( /\ ret'[t].op = "averror_from_errno"
                /\ ret[u].op = "averror_from_errno"
                /\ ret'[t].arg = ret[u].arg
                /\ ret[u].arg # INT_MIN ) => ret'[t].val = ret[u].val
       /\ (\E t \in Threads : ret'[t].op = "averror_from_errno" /\ ret'[t] # ret[t]) =>
              UNCHANGED <<platform, AV_NOPTS_VALUE_INT, coded_side_data>>
      ]_vars

C4_Witness ==
    \E t, u \in Threads :
        /\ t # u
        /\ Called(t, "averror_from_errno")
        /\ Called(u, "averror_from_errno")
        /\ ret[t].arg \in ErrnoRange
        /\ ret[t].arg = ret[u].arg
        /\ ret[t].val = ret[u].val

\* C5: AV_NOPTS_VALUE_INT holds -2^63, the least int64_t (-32768 * 2^48),
\* in every state, and every read of it returns that value.
C5_NoptsSentinel ==
    /\ AV_NOPTS_VALUE_INT = INT64_MIN
    /\ \A t \in Threads :
           Called(t, "AV_NOPTS_VALUE_INT") => ret[t].val = INT64_MIN

C5_Witness ==
    \E t, u \in Threads :
        /\ Called(t, "AV_NOPTS_VALUE_INT")
        /\ ret[t].val = INT64_MIN
        /\ ~Called(u, "none")
        /\ ~Called(u, "AV_NOPTS_VALUE_INT")

\* C6: no step of any thread writes the sentinel, the build target or the
\* caller's codec parameters; a step changes only the calling thread's own
\* result; and a call with defined behaviour returns what every other
\* thread's call of the same operation with the same argument returned.
Defined(r) == ~(r.op = "averror_from_errno" /\ r.arg = INT_MIN)

C7_NoMatchIsNull ==
    \A t \in Threads :
        ( /\ Called(t, "get_codec_side_data")
          /\ Matching(ret[t].arg) = {} ) =>
            ret[t].val = side_data_lookup(<<>>, ret[t].arg)

C7_Witness ==
    \E t \in Threads :
        /\ Called(t, "get_codec_side_data")
        /\ Len(coded_side_data) > 0
        /\ Matching(ret[t].arg) = {}
        /\ ret[t].val = NULL

\* C8: get_averror_eof and get_averror_eagain return negative values, and
\* averror_from_errno returns a negative value for every positive argument.
C8_ErrorsNegative ==
    \A t \in Threads :
        /\ Called(t, "get_averror_eof") => ret[t].val < 0
        /\ Called(t, "get_averror_eagain") => ret[t].val < 0
        /\ (Called(t, "averror_from_errno") /\ ret[t].arg > 0) => ret[t].val < 0

C8_Witness ==
    \E t, u \in Threads :
        /\ Called(t, "averror_from_errno")
        /\ ret[t].arg = INT_MAX
        /\ ret[t].val < 0
        /\ Called(u, "get_averror_eof")

\* a call of averror_from_errno whose argument is another call's result
RoundTrip(t, u) ==
    /\ Called(t, "averror_from_errno")
    /\ Called(u, "averror_from_errno")
    /\ ret[u].arg = ret[t].val

\* C9 as stated: for every 32-bit e, INT_MIN included, averror_from_errno(e)
\* is exactly -e, an int, and averror_from_errno of that result is e.
C9_Original ==
    \A t \in Threads :
        Called(t, "averror_from_errno") =>
            /\ SumIsZero(ret[t].val, ret[t].arg)
            /\ ret[t].val \in INT_MIN..INT_MAX
            /\ \A u \in Threads : RoundTrip(t, u) => ret[u].val = ret[t].arg

\* C9 amended: for every 32-bit e other than INT_MIN, averror_from_errno(e)
\* is exactly -e, an int, and averror_from_errno of that result is e.
C9_NegationExceptIntMin ==
    \A t \in Threads :
        (Called(t, "averror_from_errno") /\ ret[t].arg # INT_MIN) =>
            /\ SumIsZero(ret[t].val, ret[t].arg)
            /\ ret[t].val \in INT_MIN..INT_MAX
            /\ \A u \in Threads : RoundTrip(t, u) => ret[u].val = ret[t].arg

C9_Witness ==
    \E t, u \in Threads :
        /\ t # u
        /\ RoundTrip(t, u)
        /\ ret[t].arg = INT_MAX
        /\ ret[u].val = INT_MAX

\* C10: the end-of-stream code is no errno-derived code: it differs from
\* AVERROR(e) for every platform error number e and from what
\* get_averror_eagain returns, and get_averror_eagain returns what
\* averror_from_errno(EAGAIN) returns.
C10_EofApart ==
    /\ \A e \in ErrnoRange : AVERROR_EOF \notin AVERROR(e)
    /\ \A t, u \in Threads :
           /\ ( /\ Called(t, "get_averror_eof")
                /\ Called(u, "averror_from_errno")
                /\ ret[u].arg \in ErrnoRange ) => ret[t].val # ret[u].val
           /\ ( /\ Called(t, "get_averror_eof")
                /\ Called(u, "get_averror_eagain") ) => ret[t].val # ret[u].val
           /\ ( /\ Called(t, "get_averror_eagain")
                /\ Called(u, "averror_from_errno")
                /\ ret[u].arg = EAGAIN ) => ret[t].val = ret[u].val

C10_Witness ==
    \E t, u \in Threads :
        /\ Called(t, "get_averror_eagain")
        /\ Called(u, "averror_from_errno")
        /\ ret[u].arg = EAGAIN
        /\ ret[t].val = ret[u].val

====
